---- MODULE Spec2Model ----
(***************************************************************************)
(* A model of autokeras/tuner.py: the AutoTuner search orchestration       *)
(* (search, get_best_model, the finished flag, the best-model weights      *)
(* file) and the tuner registry (TUNER_CLASSES, get_tuner_class).          *)
(*                                                                         *)
(* Python list objects are modelled by a heap: a function from object      *)
(* names to list values, so that aliasing and in-place mutation (append)   *)
(* are visible.  Exceptions are modelled by the name of the exception      *)
(* class that propagates out of the call.                                  *)
(***************************************************************************)
EXTENDS Naturals, Sequences, FiniteSets, TLC

VARIABLES
    finished,       \* self._finished
    weights_file,   \* the file at best_model_path (<project_dir>/best_model)
    oracle,         \* the oracle's trials, as hyperparameters ranked best first
    heap,           \* the list objects alive in the last search() call
    last,           \* what the last call was given, did and raised
    nbase,          \* number of runs of the base search procedure
    nbuild,         \* number of hypermodel.build calls made by search()
    nfit,           \* number of model.fit calls made by search()
    nwrites,        \* number of save_weights calls
    calls,          \* number of calls made on the tuner
    lookups         \* the results of the get_tuner_class calls made so far

vars == <<finished, weights_file, oracle, heap, last,
          nbase, nbuild, nfit, nwrites, calls, lookups>>

tuner_vars == <<finished, weights_file, oracle, heap, last,
                nbase, nbuild, nfit, nwrites, calls>>

----------------------------------------------------------------------------
(* Bounds of the model *)

MaxCallbacks == 2       \* longest callback list a caller passes
MaxTrain == 2           \* largest training dataset
MaxVal == 1             \* largest validation dataset
MaxCalls == 3           \* calls made on one tuner
MaxLookups == 2         \* get_tuner_class calls

(* Program constants *)

PATIENCE == 10          \* tf.keras.callbacks.EarlyStopping(patience=10)

----------------------------------------------------------------------------
(* Values *)

EarlyStopping(p) == [type |-> "EarlyStopping", patience |-> p]

History == [type |-> "History", patience |-> 0]

\* the callbacks a caller may put in its list: an early-stopping callback of
\* its own (patience 3) or some other callback
CallerCallbacks == {EarlyStopping(3), History}

CallbackLists ==
    UNION {[1..n -> CallerCallbacks] : n \in 0..MaxCallbacks}

\* the callbacks argument: None, or a list object
CallbackArgs ==
    {[none |-> TRUE, list |-> <<>>]} \cup
    {[none |-> FALSE, list |-> l] : l \in CallbackLists}

\* a dataset is the sequence of its examples
Dataset(tag, n) == [i \in 1..n |-> <<tag, i>>]

TrainSets == {Dataset("train", n) : n \in 1..MaxTrain}

\* fit_kwargs may or may not hold the key 'validation_data'
ValArgs ==
    {[present |-> FALSE, data |-> <<>>]} \cup
    {[present |-> TRUE, data |-> Dataset("val", n)] : n \in 1..MaxVal}

\* what the oracle can hold after a run of the base search procedure:
\* at least one trial, ranked by objective
Rankings == {<<"hp_a", "hp_b">>, <<"hp_b", "hp_a">>}

NoModel == [present |-> FALSE, hp |-> "", trained |-> ""]

Model(hp, trained) == [present |-> TRUE, hp |-> hp, trained |-> trained]

EmptyHeap == [a \in {} |-> <<>>]

Min(a, b) == IF a <= b THEN a ELSE b

----------------------------------------------------------------------------
(* Helpers of AutoTuner.search *)

\* `not callbacks`: None and the empty list are both falsy
NotCallbacks(cbs) == cbs.none \/ Len(cbs.list) = 0

\* mutant: only the first callback is looked at
HasEarlyStopping_first(l) == Len(l) > 0 /\ l[1].type = "EarlyStopping"

\* any([isinstance(callback, tf.keras.callbacks.EarlyStopping)
\*      for callback in callbacks])
HasEarlyStopping(l) == \E i \in 1..Len(l) : l[i].type = "EarlyStopping"

\* mutant: `and` in place of `or`
NeedsRetrain_and(l, fit_on_val_data) ==
    ~(\E i \in 1..Len(l) : l[i].type = "EarlyStopping") /\ fit_on_val_data

\* the condition of the final-fit branch
NeedsRetrain(l, fit_on_val_data) == ~HasEarlyStopping(l) \/ fit_on_val_data

\* mutant: no copy is made, the list passed in is handed back
deepcopy_alias(h, src, fresh) == [heap |-> h, ref |-> src]

\* self._deepcopy_callbacks(callbacks): a new list object `fresh` holding a
\* copy of the list object `src`; the result is the new heap and the
\* reference returned
deepcopy_callbacks(h, src, fresh) ==
    [heap |-> (fresh :> h[src]) @@ h, ref |-> fresh]

\* new_callbacks.append(tf.keras.callbacks.EarlyStopping(patience=10))
AppendEarlyStopping(h, ref) ==
    [h EXCEPT ![ref] = Append(@, EarlyStopping(PATIENCE))]

\* mutant: the validation dataset is left out
concatenate_dropped(x, validation_data) == x

\* fit_kwargs['x'].concatenate(fit_kwargs['validation_data'])
concatenate(x, validation_data) == x \o validation_data

\* self.oracle.get_best_trials(n): the n best trials, best first
get_best_trials(o, n) == SubSeq(o, 1, Min(n, Len(o)))

\* super().get_best_models(): the models of the best trials (one by
\* default), as the base search procedure trained them
get_best_models(o) ==
    [i \in 1..Min(1, Len(o)) |-> Model(get_best_trials(o, 1)[i], "search")]

\* the caller's objects before the call: its list, when it passed one
CallerHeap(cbs) ==
    IF cbs.none THEN EmptyHeap ELSE ("caller_list" :> cbs.list)

\* search() from `if not callbacks` down to the call of super().search:
\* the heap after the injection, the local `callbacks` and `new_callbacks`
Inject(cbs) ==
    LET h0 == CallerHeap(cbs)
        callbacks == IF NotCallbacks(cbs) THEN "empty_list" ELSE "caller_list"
        h1 == IF NotCallbacks(cbs) THEN ("empty_list" :> <<>>) @@ h0 ELSE h0
        c == deepcopy_callbacks(h1, callbacks, "new_callbacks")
        h2 == IF ~HasEarlyStopping(c.heap[callbacks])
              THEN AppendEarlyStopping(c.heap, c.ref)
              ELSE c.heap
    IN [heap |-> h2, callbacks |-> callbacks, new_callbacks |-> c.ref]

\* the final-fit branch of search(), entered when a retrain is needed:
\* what it raises, what it passes to model.fit and the model it yields
Retrain(h, callbacks, fit_on_val_data, x, val, o) ==
    LET trials == get_best_trials(o, 1)
        c == deepcopy_callbacks(h, callbacks, "fit_callbacks")
    IN  IF Len(trials) = 0
        THEN [error |-> "IndexError", heap |-> h,
              events |-> <<"get_best_trials">>,
              fit_x |-> <<>>, fit_callbacks |-> <<>>, model |-> NoModel]
        ELSE IF fit_on_val_data /\ ~val.present
        THEN [error |-> "KeyError", heap |-> c.heap,
              events |-> <<"get_best_trials">>,
              fit_x |-> <<>>, fit_callbacks |-> <<>>, model |-> NoModel]
        ELSE [error |-> "none", heap |-> c.heap,
              events |-> <<"get_best_trials", "build", "fit">>,
              fit_x |-> IF fit_on_val_data
                        THEN concatenate(x, val.data) ELSE x,
              fit_callbacks |-> c.heap[c.ref],
              model |-> Model(trials[1], "final_fit")]

\* the else branch: model = self.get_best_models()[0]
TakeBest(h, o) ==
    LET models == get_best_models(o)
    IN  IF Len(models) = 0
        THEN [error |-> "IndexError", heap |-> h,
              events |-> <<"get_best_models">>,
              fit_x |-> <<>>, fit_callbacks |-> <<>>, model |-> NoModel]
        ELSE [error |-> "none", heap |-> h,
              events |-> <<"get_best_models">>,
              fit_x |-> <<>>, fit_callbacks |-> <<>>, model |-> models[1]]

----------------------------------------------------------------------------
(* AutoTuner *)

\* the tuner object and the files and collaborators it owns
Self ==
    [finished |-> finished, weights_file |-> weights_file, oracle |-> oracle,
     nbase |-> nbase, nbuild |-> nbuild, nfit |-> nfit, nwrites |-> nwrites]

\* the record of a call: its arguments, the exception it raised, the calls
\* it made in order, and what it handed to its collaborators
Call(op, cbs, fov, x, val, error, events, base_callbacks, r, returned) ==
    [op |-> op, callbacks |-> cbs, fit_on_val_data |-> fov, x |-> x,
     validation_data |-> val, error |-> error, events |-> events,
     base_callbacks |-> base_callbacks, fit_x |-> r.fit_x,
     fit_callbacks |-> r.fit_callbacks, model |-> r.model,
     returned |-> returned]

NoFit == [fit_x |-> <<>>, fit_callbacks |-> <<>>, model |-> NoModel]

NoCallbacks == [none |-> TRUE, list |-> <<>>]

NoVal == [present |-> FALSE, data |-> <<>>]

\* mutant: the flag is set and the weights are never written
Persist_flag_only(self, model) == [self EXCEPT !.finished = TRUE]

\* model.save_weights(self.best_model_path); self._finished = True
Persist(self, model) ==
    [self EXCEPT !.weights_file = model,
                 !.nwrites = @ + 1,
                 !.finished = TRUE]

\* the body of search() below the `if self._finished: return` guard;
\* `ranking` is what the base search procedure leaves in the oracle
search_run(self, cbs, fov, x, val, ranking) ==
    LET inj == Inject(cbs)
        base_callbacks == inj.heap[inj.new_callbacks]
        s1 == [self EXCEPT !.oracle = ranking, !.nbase = @ + 1]
        r == IF NeedsRetrain(inj.heap[inj.callbacks], fov)
             THEN Retrain(inj.heap, inj.callbacks, fov, x, val, s1.oracle)
             ELSE TakeBest(inj.heap, s1.oracle)
        fitted == r.error = "none" /\ r.model.trained = "final_fit"
        s2 == IF fitted
              THEN [s1 EXCEPT !.nbuild = @ + 1, !.nfit = @ + 1]
              ELSE s1
    IN  IF r.error = "none"
        THEN [self |-> Persist(s2, r.model), heap |-> r.heap,
              call |-> Call("search", cbs, fov, x, val, "none",
                            <<"base_search">> \o r.events
                                \o <<"save_weights", "set_finished">>,
                            base_callbacks, r, NoModel)]
        ELSE [self |-> s2, heap |-> r.heap,
              call |-> Call("search", cbs, fov, x, val, r.error,
                            <<"base_search">> \o r.events,
                            base_callbacks, r, NoModel)]

\* mutant: the finished guard is missing
search_unguarded(self, cbs, fov, x, val, ranking) ==
    search_run(self, cbs, fov, x, val, ranking)

\* AutoTuner.search(callbacks, fit_on_val_data, **fit_kwargs)
search(self, cbs, fov, x, val, ranking) ==
    IF self.finished
    THEN [self |-> self, heap |-> CallerHeap(cbs),
          call |-> Call("search", cbs, fov, x, val, "none", <<>>, <<>>,
                        NoFit, NoModel)]
    ELSE search_run(self, cbs, fov, x, val, ranking)

\* mutant: the weights of the file are not loaded
load_weights_skipped(model, file) == model

\* model.load_weights(path): the model with the weights of the file
load_weights(model, file) == [model EXCEPT !.trained = file.trained]

\* AutoTuner.get_best_model()
get_best_model(self) ==
    LET models == get_best_models(self.oracle)
    IN  IF Len(models) = 0
        THEN Call("get_best_model", NoCallbacks, FALSE, <<>>, NoVal,
                  "IndexError", <<"get_best_models">>, <<>>, NoFit, NoModel)
        ELSE IF ~self.weights_file.present
        THEN Call("get_best_model", NoCallbacks, FALSE, <<>>, NoVal,
                  "NotFoundError", <<"get_best_models", "load_weights">>,
                  <<>>, NoFit, NoModel)
        ELSE Call("get_best_model", NoCallbacks, FALSE, <<>>, NoVal,
                  "none", <<"get_best_models", "load_weights">>,
                  <<>>, NoFit, load_weights(models[1], self.weights_file))

----------------------------------------------------------------------------
(* The tuner registry *)

\* mutant: one name is not registered
TUNER_CLASSES_missing ==
    [name \in {"bayesian", "random", "hyperband", "greedy",
               "image_classifier", "image_regressor", "text_classifier",
               "text_regressor", "structured_data_classifier"} |->
        CASE name = "bayesian" -> "BayesianOptimization"
          [] name = "random" -> "RandomSearch"
          [] name = "hyperband" -> "Hyperband"
          [] name = "image_classifier" -> "ImageClassifierTuner"
          [] OTHER -> "Greedy"]

TUNER_CLASSES ==
    [name \in {"bayesian", "random", "hyperband", "greedy",
               "image_classifier", "image_regressor", "text_classifier",
               "text_regressor", "structured_data_classifier",
               "structured_data_regressor"} |->
        CASE name = "bayesian" -> "BayesianOptimization"
          [] name = "random" -> "RandomSearch"
          [] name = "hyperband" -> "Hyperband"
          [] name = "image_classifier" -> "ImageClassifierTuner"
          [] OTHER -> "Greedy"]

\* the names the ValueError message of get_tuner_class lists
MessageOptions == <<"greedy", "random", "hyperband", "bayesian">>

\* the values a caller may pass as `tuner`: strings, and values that are
\* not strings (None, an int, a list holding a name)
TunerArgs ==
    {[type |-> "str", value |-> v] :
        v \in {"bayesian", "random", "hyperband", "greedy",
               "image_classifier", "image_regressor", "text_classifier",
               "text_regressor", "structured_data_classifier",
               "structured_data_regressor",
               "nonexistent", "Greedy", "", "greedy ", "image"}} \cup
    {[type |-> "NoneType", value |-> "None"],
     [type |-> "int", value |-> "0"],
     [type |-> "list", value |-> "greedy"]}

\* get_tuner_class(tuner): the class returned, or the ValueError raised with
\* the value and the options its message names
get_tuner_class(tuner) ==
    IF tuner.type = "str" /\ tuner.value \in DOMAIN TUNER_CLASSES
    THEN [tuner |-> tuner, error |-> "none",
          class |-> TUNER_CLASSES[tuner.value], options |-> <<>>]
    ELSE [tuner |-> tuner, error |-> "ValueError",
          class |-> "", options |-> MessageOptions]

----------------------------------------------------------------------------
(* The tuner as a state machine *)

Install(self) ==
    /\ finished' = self.finished
    /\ weights_file' = self.weights_file
    /\ oracle' = self.oracle
    /\ nbase' = self.nbase
    /\ nbuild' = self.nbuild
    /\ nfit' = self.nfit
    /\ nwrites' = self.nwrites

\* AutoTuner.__init__, on a fresh project directory
Init ==
    /\ finished = FALSE
    /\ weights_file = NoModel
    /\ oracle = <<>>
    /\ heap = EmptyHeap
    /\ last = Call("init", NoCallbacks, FALSE, <<>>, NoVal, "none", <<>>,
                   <<>>, NoFit, NoModel)
    /\ nbase = 0
    /\ nbuild = 0
    /\ nfit = 0
    /\ nwrites = 0
    /\ calls = 0
    /\ lookups = <<>>

Search(cbs, fov, x, val, ranking) ==
    /\ calls < MaxCalls
    /\ LET out == search(Self, cbs, fov, x, val, ranking)
       IN  /\ Install(out.self)
           /\ heap' = out.heap
           /\ last' = out.call
    /\ calls' = calls + 1
    /\ UNCHANGED lookups

GetBestModel ==
    /\ calls < MaxCalls
    /\ last' = get_best_model(Self)
    /\ heap' = EmptyHeap
    /\ calls' = calls + 1
    /\ UNCHANGED <<finished, weights_file, oracle, nbase, nbuild, nfit,
                   nwrites, lookups>>

Next ==
    \/ \E cbs \in CallbackArgs, fov \in BOOLEAN, x \in TrainSets,
          val \in ValArgs, ranking \in Rankings :
            Search(cbs, fov, x, val, ranking)
    \/ GetBestModel

GetTunerClass(tuner) ==
    /\ Len(lookups) < MaxLookups
    /\ lookups' = Append(lookups, get_tuner_class(tuner))
    /\ UNCHANGED tuner_vars

NextRegistry == \E tuner \in TunerArgs : GetTunerClass(tuner)

Spec == Init /\ [][Next]_vars

SpecRegistry == Init /\ [][NextRegistry]_vars

----------------------------------------------------------------------------
(* Vocabulary of the properties *)

\* the exception classes that report an invalid argument
InvalidArgument == {"ValueError", "TypeError"}

\* the exception classes that report that something looked up is not there
NotFound == {"IndexError", "KeyError", "NotFoundError"}

\* the last call was a search() that got past the finished guard
SearchRan == last.op = "search" /\ Len(last.events) > 0

Occurs(e) == \E i \in 1..Len(last.events) : last.events[i] = e

\* the position of an event among the calls the last call made (0: absent)
Pos(e) ==
    IF Occurs(e)
    THEN CHOOSE i \in 1..Len(last.events) : last.events[i] = e
    ELSE 0

\* the last search() built a fresh model and fitted it
Retrained == Occurs("build") /\ Occurs("fit")

\* the list the caller passed, None read as no callbacks
GivenList == last.callbacks.list

CallerHasES ==
    \E i \in 1..Len(GivenList) : GivenList[i].type = "EarlyStopping"

----------------------------------------------------------------------------
(* C1: the finished flag is false at construction; once it is true it     *)
(* stays true, and every later search() is a no-op: it raises nothing,    *)
(* calls nothing, and leaves the oracle, the weights file and the counts  *)
(* of base searches, builds, fits and weights writes as they were.  The   *)
(* search() that sets the flag runs exactly one base search, at most one  *)
(* build and fit, and exactly one weights write.                          *)
C1_FinishedNoOp ==
    /\ finished = FALSE
    /\ [][/\ finished =>
                /\ finished'
                /\ UNCHANGED <<weights_file, oracle, nbase, nbuild, nfit,
                               nwrites>>
                /\ last'.op = "search" =>
                      /\ last'.events = <<>>
                      /\ last'.error = "none"
                      /\ ~last'.model.present
          /\ (~finished /\ finished') =>
                /\ last'.op = "search"
                /\ nbase' = nbase + 1
                /\ nwrites' = nwrites + 1
                /\ nbuild' \in {nbuild, nbuild + 1}
                /\ nfit' \in {nfit, nfit + 1}]_vars

\* a search() made after a completed one
C1_Witness ==
    /\ finished
    /\ last.op = "search"
    /\ last.events = <<>>
    /\ nbase = 1
    /\ nwrites = 1
    /\ calls = 2

(* C2: a search() whose arguments meet its precondition (a validation     *)
(* dataset when fit_on_val_data is set) builds a fresh model from the     *)
(* oracle's rank-1 hyperparameters and fits it iff the caller's list has  *)
(* no early-stopping callback or fit_on_val_data is set; otherwise it     *)
(* builds and fits nothing and persists the base search's top model.      *)
C2_RetrainDecision ==
    (SearchRan /\ (last.fit_on_val_data => last.validation_data.present)) =>
        /\ last.error = "none"
        /\ Retrained <=> (~CallerHasES \/ last.fit_on_val_data)
        /\ (Occurs("build") \/ Occurs("fit")) => Retrained
        /\ Retrained =>
              /\ last.model = Model(oracle[1], "final_fit")
              /\ weights_file = last.model
        /\ ~Retrained =>
              /\ CallerHasES /\ ~last.fit_on_val_data
              /\ Occurs("get_best_models")
              /\ weights_file = Model(oracle[1], "search")

\* the case (T,F), with trials ranked against the order they were named in
C2_Witness ==
    /\ SearchRan
    /\ CallerHasES
    /\ ~last.fit_on_val_data
    /\ ~Retrained
    /\ oracle = <<"hp_b", "hp_a">>
    /\ weights_file = Model("hp_b", "search")

(* C3: the callback list search() passes to the base search procedure is  *)
(* the caller's list (None read as empty) plus one early-stopping         *)
(* callback of patience 10 when the caller's list holds no early-stopping *)
(* callback, and the caller's list as it is when it holds one; the list   *)
(* passed to the final fit is the caller's list, nothing injected.        *)
C3_Injection ==
    SearchRan =>
        /\ ~CallerHasES =>
              last.base_callbacks =
                  Append(GivenList,
                         [type |-> "EarlyStopping", patience |-> 10])
        /\ CallerHasES => last.base_callbacks = GivenList
        /\ Retrained => last.fit_callbacks = GivenList

\* callbacks=None: one early-stopping callback injected, none in the fit
C3_Witness ==
    /\ SearchRan
    /\ Retrained
    /\ last.callbacks.none
    /\ last.base_callbacks = <<EarlyStopping(10)>>
    /\ last.fit_callbacks = <<>>

(* C4: after any search() the caller's list object holds what it held     *)
(* before the call; the list handed to the base search procedure and the  *)
(* list handed to the final fit are objects of their own.                 *)
C4_CallerListUnchanged ==
    last.op = "search" =>
        /\ ~last.callbacks.none =>
              /\ "caller_list" \in DOMAIN heap
              /\ heap["caller_list"] = last.callbacks.list
        /\ SearchRan =>
              /\ "new_callbacks" \in DOMAIN heap
              /\ heap["new_callbacks"] = last.base_callbacks
        /\ Retrained =>
              /\ "fit_callbacks" \in DOMAIN heap
              /\ heap["fit_callbacks"] = last.fit_callbacks

\* a caller's list that got an early-stopping callback injected in the copy
C4_Witness ==
    /\ SearchRan
    /\ Retrained
    /\ heap["caller_list"] = <<History>>
    /\ heap["new_callbacks"] = <<History, EarlyStopping(10)>>
    /\ heap["fit_callbacks"] = <<History>>

(* C5: the weights file exists iff a search() has completed, which is iff *)
(* the finished flag is true; it has then been written exactly once.  In  *)
(* a completing search() the write comes after the base search and after  *)
(* the final model is obtained, and before the flag is set.  A search()   *)
(* that raises writes nothing and leaves the flag false.                  *)
C5_ArtifactLifecycle ==
    /\ finished <=> weights_file.present
    /\ nwrites = IF finished THEN 1 ELSE 0
    /\ last.op = "get_best_model" => ~Occurs("save_weights")
    /\ (last.op = "search" /\ Occurs("save_weights")) =>
          /\ Pos("base_search") = 1
          /\ Occurs("fit") \/ Occurs("get_best_models")
          /\ Pos("fit") < Pos("save_weights")
          /\ Pos("get_best_models") < Pos("save_weights")
          /\ Pos("set_finished") = Pos("save_weights") + 1
          /\ weights_file = last.model
          /\ finished
    /\ (SearchRan /\ last.error = "none") => Occurs("save_weights")
    /\ (last.op = "search" /\ last.error # "none") =>
          /\ ~Occurs("save_weights")
          /\ ~Occurs("set_finished")
          /\ ~finished
          /\ ~weights_file.present

\* a search() that raised, then one that completed, then get_best_model()
C5_Witness ==
    /\ finished
    /\ nbase = 2
    /\ nwrites = 1
    /\ last.op = "get_best_model"
    /\ weights_file.present

(* C6: a search() with fit_on_val_data set and no validation dataset in   *)
(* fit_kwargs fails with an invalid-argument error, fits no model, writes *)
(* no weights and leaves the finished flag false.                         *)
C6_MissingValidationIsInvalidArgument ==
    (SearchRan /\ last.fit_on_val_data /\ ~last.validation_data.present) =>
        /\ last.error \in InvalidArgument
        /\ ~Occurs("fit")
        /\ ~weights_file.present
        /\ ~finished

(* C7: the training input of the final fit is the caller's training       *)
(* dataset followed by the validation dataset when fit_on_val_data is     *)
(* set, so its size is the sum of the two sizes, and the caller's         *)
(* training dataset as it is otherwise.                                   *)
C7_Concatenation ==
    (SearchRan /\ Retrained) =>
        /\ last.fit_on_val_data =>
              /\ Len(last.fit_x) =
                    Len(last.x) + Len(last.validation_data.data)
              /\ \A i \in 1..Len(last.x) : last.fit_x[i] = last.x[i]
              /\ \A i \in 1..Len(last.validation_data.data) :
                    last.fit_x[Len(last.x) + i] = last.validation_data.data[i]
        /\ ~last.fit_on_val_data => last.fit_x = last.x

\* the largest training set and a validation set, concatenated
C7_Witness ==
    /\ SearchRan
    /\ Retrained
    /\ last.fit_on_val_data
    /\ Len(last.x) = MaxTrain
    /\ Len(last.validation_data.data) = MaxVal
    /\ Len(last.fit_x) = MaxTrain + MaxVal

C8_WitnessNoFile ==
    /\ last.op = "get_best_model"
    /\ ~finished
    /\ nbase = 1
    /\ last.error = "NotFoundError"

(* C9: get_tuner_class returns, for each of the 10 documented names, the  *)
(* class registered for it, and raises ValueError, returning no class,    *)
(* for every other string and for every value that is not a string.       *)
C9_RegistryLookup ==
    \A i \in 1..Len(lookups) :
        LET r == lookups[i]
            v == r.tuner.value
            str == r.tuner.type = "str"
        IN  /\ (str /\ v = "bayesian") =>
                  (r.error = "none" /\ r.class = "BayesianOptimization")
            /\ (str /\ v = "random") =>
                  (r.error = "none" /\ r.class = "RandomSearch")
            /\ (str /\ v = "hyperband") =>
                  (r.error = "none" /\ r.class = "Hyperband")
            /\ (str /\ v = "image_classifier") =>
                  (r.error = "none" /\ r.class = "ImageClassifierTuner")
            /\ (str /\ v \in {"greedy", "image_regressor", "text_classifier",
                              "text_regressor", "structured_data_classifier",
                              "structured_data_regressor"}) =>
                  (r.error = "none" /\ r.class = "Greedy")
            /\ ~(str /\ v \in {"bayesian", "random", "hyperband", "greedy",
                               "image_classifier", "image_regressor",
                               "text_classifier", "text_regressor",
                               "structured_data_classifier",
                               "structured_data_regressor"}) =>
                  (r.error \in InvalidArgument /\ r.class = "")

\* a documented name looked up, then an unrecognized one
C9_Witness ==
    /\ Len(lookups) = 2
    /\ lookups[1].tuner = [type |-> "str", value |-> "image_classifier"]
    /\ lookups[1].class = "ImageClassifierTuner"
    /\ lookups[2].tuner = [type |-> "str", value |-> "nonexistent"]
    /\ lookups[2].error = "ValueError"

(* C10: the error get_tuner_class raises names all valid options: the     *)
(* names its message lists are the names the registry accepts.            *)
C10_MessageNamesAllOptions ==
    \A i \in 1..Len(lookups) :
        lookups[i].error # "none" =>
            {lookups[i].options[j] : j \in 1..Len(lookups[i].options)}
                = {"bayesian", "random", "hyperband", "greedy",
                   "image_classifier", "image_regressor", "text_classifier",
                   "text_regressor", "structured_data_classifier",
                   "structured_data_regressor"}

====
